---- MODULE Spec2Model ----
(***************************************************************************)
(* A model of WebCrawler (src/crawler.py): level-wise link discovery, the  *)
(* JSON snapshot of the frontier, the content-crawl phase, and the         *)
(* download of the files and images the crawled pages link to.             *)
(*                                                                         *)
(* Strings (URLs, hrefs, JSON keys) are sequences of one-character         *)
(* strings, so that substring tests, URL parsing and the str()/int()       *)
(* conversions of the snapshot are computed and not assumed.               *)
(***************************************************************************)
EXTENDS Integers, Sequences, FiniteSets, TLC

(***************************************************************************)
(* Bounds of the model.                                                    *)
(***************************************************************************)
\* discovery levels the caller may ask for are 0..MaxLevel
MaxLevel == 2
\* number of calls made on the crawler, a restart of the process (a new
\* WebCrawler on the same output_dir) counting as one
MaxCalls == 4

(***************************************************************************)
(* Strings.                                                                *)
(***************************************************************************)
Alphabet == <<"#", "-", ".", "/", "0", "1", "2", "3", "4", "5", "6", "7", "8", "9",
              ":", "?", "@", "D", "F", "P", "[", "]", "a", "b", "c", "d", "e", "f",
              "g", "h", "i", "j", "l", "m", "n", "o", "p", "s", "t", "u", "v", "w",
              "x", "y">>

\* code point order of the characters used (all ASCII, listed in order above)
Ord(c) == CHOOSE i \in 1..Len(Alphabet) : Alphabet[i] = c

\* Python's `d in s` on strings
Contains(s, d) ==
    \E i \in 1..(Len(s) - Len(d) + 1) : SubSeq(s, i, i + Len(d) - 1) = d

StartsWith(s, p) == Len(s) >= Len(p) /\ SubSeq(s, 1, Len(p)) = p

\* index of the first character of s that is in cs, or Len(s)+1
FirstOf(s, cs) ==
    IF \E i \in 1..Len(s) : s[i] \in cs
    THEN CHOOSE i \in 1..Len(s) : s[i] \in cs /\ \A j \in 1..(i - 1) : s[j] \notin cs
    ELSE Len(s) + 1

\* index of the last character of s that is in cs, or 0
LastOf(s, cs) ==
    IF \E i \in 1..Len(s) : s[i] \in cs
    THEN CHOOSE i \in 1..Len(s) : s[i] \in cs /\ \A j \in (i + 1)..Len(s) : s[j] \notin cs
    ELSE 0

\* Python's string comparison s < t (lexicographic by code point)
StrLess(s, t) ==
    \E i \in 1..(Len(t)) :
        /\ i <= Len(s) + 1
        /\ SubSeq(s, 1, i - 1) = SubSeq(t, 1, i - 1)
        /\ \/ i = Len(s) + 1
           \/ i <= Len(s) /\ Ord(s[i]) < Ord(t[i])

(***************************************************************************)
(* urllib.parse, as far as the crawler uses it.                            *)
(***************************************************************************)
Letters == {"D", "F", "P", "a", "b", "c", "d", "e", "f", "g", "h", "i", "j", "l", "m",
            "n", "o", "p", "s", "t", "u", "v", "w", "x", "y"}

\* the scheme of a URL ("" when it has none): the letters before the first ":"
Scheme(url) ==
    LET i == FirstOf(url, {":"})
    IN  IF i > 1 /\ i <= Len(url) /\ \A j \in 1..(i - 1) : url[j] \in Letters
        THEN SubSeq(url, 1, i - 1)
        ELSE <<>>

\* the URL without "<scheme>:"
AfterScheme(url) ==
    IF Scheme(url) = <<>> THEN url ELSE SubSeq(url, Len(Scheme(url)) + 2, Len(url))

\* urlparse(url).netloc: what follows "//" up to the next "/", "?" or "#"
Netloc(url) ==
    LET r == AfterScheme(url)
    IN  IF StartsWith(r, <<"/", "/">>)
        THEN LET t == SubSeq(r, 3, Len(r))
             IN  SubSeq(t, 1, FirstOf(t, {"/", "?", "#"}) - 1)
        ELSE <<>>

\* urlparse(url).hostname: the netloc without userinfo and port
Hostname(url) ==
    LET n == Netloc(url)
        h == SubSeq(n, LastOf(n, {"@"}) + 1, Len(n))
    IN  SubSeq(h, 1, FirstOf(h, {":"}) - 1)

\* urlsplit raises ValueError("Invalid IPv6 URL") on an unbalanced bracket
SplitRaises(url) ==
    LET n == Netloc(url)
    IN  (\E i \in 1..Len(n) : n[i] = "[") # (\E i \in 1..Len(n) : n[i] = "]")

\* urljoin(base, href) raises when urlsplit(href) does
UrlJoinRaises(base, href) == href # <<>> /\ SplitRaises(href)

\* urljoin(base, href) for an href that is absolute, root-relative or a
\* plain relative path (the hrefs of the pages below are of these kinds)
UrlJoin(base, href) ==
    IF href = <<>> THEN base
    ELSE IF Scheme(href) # <<>> THEN href
    ELSE IF StartsWith(href, <<"/">>)
         THEN Scheme(base) \o <<":", "/", "/">> \o Netloc(base) \o href
    ELSE SubSeq(base, 1, LastOf(base, {"/"})) \o href

(***************************************************************************)
(* The crawled site: URLs and pages.                                       *)
(***************************************************************************)
\* "h://a.c/": the base URL the crawler is constructed with
base_url == <<"h", ":", "/", "/", "a", ".", "c", "/">>
\* "h://a.c/x" and "h://a.c/y": two pages of the site
Ux == <<"h", ":", "/", "/", "a", ".", "c", "/", "x">>
Uy == <<"h", ":", "/", "/", "a", ".", "c", "/", "y">>
\* "h://b.c/": another site
Uo == <<"h", ":", "/", "/", "b", ".", "c", "/">>
\* "h://b.c/a.c": another site, the domain string in its path
Uq == <<"h", ":", "/", "/", "b", ".", "c", "/", "a", ".", "c">>
\* "h://na.c/": another host whose name contains the domain string
Un == <<"h", ":", "/", "/", "n", "a", ".", "c", "/">>
\* "m:u@a.c": a mail address at the domain
Um == <<"m", ":", "u", "@", "a", ".", "c">>
\* "h://[": an href urlsplit rejects
BadHref == <<"h", ":", "/", "/", "[">>

\* "h://a.c/f.pdf", "h://a.c/i.png", "h://a.c/F.PDF": files of the site
Up == <<"h", ":", "/", "/", "a", ".", "c", "/", "f", ".", "p", "d", "f">>
Ug == <<"h", ":", "/", "/", "a", ".", "c", "/", "i", ".", "p", "n", "g">>
UP == <<"h", ":", "/", "/", "a", ".", "c", "/", "F", ".", "P", "D", "F">>

URLs == {base_url, Ux, Uy, Uo, Uq, Un, Um, Up, Ug, UP}

\* a page: the status the server answers with, the href attributes of its
\* <a> elements in document order, and whether the document has a <body>
Page(status, hrefs, body) == [status |-> status, hrefs |-> hrefs, body |-> body]

BasePages ==
    { Page(200, << <<"x">>, <<"/", "y">>, Uo >>, TRUE),
      Page(200, << Ux, <<>>, Uq, Um >>, TRUE),
      Page(404, << <<"/", "x">> >>, TRUE),
      Page(200, << Un, BadHref, Ux >>, TRUE) }

XPages ==
    { Page(200, << <<"y">>, base_url >>, TRUE),
      Page(200, << Ux >>, FALSE),
      Page(404, << <<"/", "y">> >>, TRUE) }

\* the sites the model is checked on
Webs ==
    { [u \in {base_url, Ux, Uy, Uq, Un} |->
          CASE u = base_url -> b
            [] u = Ux -> x
            [] u = Uy -> Page(200, << <<"x">>, Un >>, TRUE)
            [] u = Uq -> Page(200, << <<"/", "a", ".", "c">>, Uy >>, TRUE)
            [] u = Un -> Page(200, << >>, FALSE)]
      : b \in BasePages, x \in XPages }

\* a page with images: the src attributes of its <img> elements as well
AssetPage(status, hrefs, imgs, body) ==
    [status |-> status, hrefs |-> hrefs, imgs |-> imgs, body |-> body]

\* the response to a file URL read as HTML: no element at all
FileResponse(status) == AssetPage(status, << >>, << >>, FALSE)

AssetXPages ==
    { AssetPage(200, << <<"f", ".", "p", "d", "f">>, <<"i", ".", "p", "n", "g">>, Uq >>,
                << <<"i", ".", "p", "n", "g">>, <<"f", ".", "p", "d", "f">> >>, TRUE),
      AssetPage(200, << <<"F", ".", "P", "D", "F">>, BadHref, <<"i", ".", "p", "n", "g">> >>,
                << >>, TRUE) }

\* sites with links to files and with images; the server has no i.png
AssetWebs ==
    { [u \in {base_url, Ux, Up, Ug, UP, Uq} |->
          CASE u = base_url ->
                  AssetPage(200, << <<"x">>, <<"f", ".", "p", "d", "f">> >>, << >>, TRUE)
            [] u = Ux -> x
            [] u = Up -> FileResponse(200)
            [] u = Ug -> FileResponse(404)
            [] u = UP -> FileResponse(200)
            [] u = Uq -> FileResponse(200)]
      : x \in AssetXPages }

(***************************************************************************)
(* Python values the snapshot goes through: str(int), int(str), list(set), *)
(* set(list), sorted(set).                                                 *)
(***************************************************************************)
Digits == <<"0", "1", "2", "3", "4", "5", "6", "7", "8", "9">>

DigitVal(c) == CHOOSE d \in 0..9 : Digits[d + 1] = c

RECURSIVE NatToStr(_)
NatToStr(n) ==
    IF n < 10 THEN << Digits[n + 1] >>
    ELSE NatToStr(n \div 10) \o << Digits[(n % 10) + 1] >>

\* str(k) of an int
IntToStr(k) == IF k < 0 THEN <<"-">> \o NatToStr(0 - k) ELSE NatToStr(k)

RECURSIVE StrToNat(_)
StrToNat(s) ==
    IF s = <<>> THEN 0
    ELSE 10 * StrToNat(SubSeq(s, 1, Len(s) - 1)) + DigitVal(s[Len(s)])

\* int(s) of a decimal string
StrToInt(s) == IF Head(s) = "-" THEN 0 - StrToNat(Tail(s)) ELSE StrToNat(s)

\* sorted(S) of a set of strings
RECURSIVE Sorted(_)
Sorted(S) ==
    IF S = {} THEN <<>>
    ELSE LET m == CHOOSE u \in S : \A v \in S \ {u} : StrLess(u, v)
         IN  <<m>> \o Sorted(S \ {m})

Reverse(q) == [i \in 1..Len(q) |-> q[Len(q) + 1 - i]]

\* str hashes are randomized per process, so the iteration order of a set
\* of strings is a property of the process: two orders are modelled
HashSeeds == {0, 1}

\* list(S) of a set of strings in a process with the given hash seed
ListOf(S, seed) == IF seed = 0 THEN Sorted(S) ELSE Reverse(Sorted(S))

\* set(q) of a list
SetOf(q) == {q[i] : i \in 1..Len(q)}

EmptyMap == [k \in {} |-> {}]

(***************************************************************************)
(* The state of the crawler, of its output directory and of its caller.    *)
(***************************************************************************)
VARIABLES
    web,             \* the site: URL -> page (external, fixed during a behaviour)
    hashseed,        \* the hash seed of the running process
    incarnation,     \* how many times the process was restarted
    ncalls,          \* how many calls were made, restarts included
    urls_by_level,   \* self.urls_by_level: level -> set of URLs
    all_urls,        \* self.all_urls
    visited_urls,    \* self.visited_urls
    urls_state_json, \* <output>/urls/urls_state.json
    content_files,   \* the URLs u with a file <output>/content/<md5(u)>.txt
    sitemap,         \* <output>/sitemap.txt
    pc,              \* "idle", or the method whose loop is running
    call,            \* the most recent call: method and level argument
    ret,             \* what the most recent call returned, once it has
    remaining,       \* the URLs the running loop has not iterated over yet
    outcomes,        \* what happened to each URL of the most recent loop
    lastRun,         \* history: the discovery run completed just before `call`
    known0,          \* history: all_urls when the running discovery run began
    saved,           \* history: memory when the snapshot file was last written
    lastLevelState,  \* history: memory when the last level completed and the
                     \* process it completed in, until save_urls_state() is
                     \* called with another frontier in memory
    computed,        \* history: the levels that ever completed
    asset_files,     \* the files below <output>/files, by path
    documents,       \* URL -> the document written in <output>/content
    downloads,       \* history: the download_file calls of the most recent
                     \* loop iteration or direct call
    requested,       \* history: the URLs requests.get was called with in the
                     \* most recent loop iteration or direct call
    visited0         \* history: visited_urls when the running fetch phase began

vars == << web, hashseed, incarnation, ncalls, urls_by_level, all_urls, visited_urls,
           urls_state_json, content_files, sitemap, pc, call, ret, remaining,
           outcomes, lastRun, known0, saved, lastLevelState, computed,
           asset_files, documents, downloads, requested, visited0 >>

\* self.domain = urlparse(base_url).netloc
domain == Netloc(base_url)

Levels == 0..MaxLevel

NoFile == [exists |-> FALSE, urls_by_level |-> EmptyMap, all_urls |-> <<>>]
NoSitemap == [exists |-> FALSE, lines |-> <<>>]
NoState == [exists |-> FALSE, urls_by_level |-> EmptyMap, all_urls |-> {}]
NoLevelState == [exists |-> FALSE, urls_by_level |-> EmptyMap, all_urls |-> {},
                 process |-> 0]
NoRun == [valid |-> FALSE, level |-> 0, frontier |-> {}, nall |-> 0, outcomes |-> EmptyMap]

\* the in-memory frontier {FrontierLevel map, GlobalURLSet}
Memory(levels, all) == [exists |-> TRUE, urls_by_level |-> levels, all_urls |-> all]

\* the call that has just completed, if it was a successful discovery run
RunSummary ==
    IF call.op = "extract_urls_level" /\ ret = "True"
    THEN [valid |-> TRUE, level |-> call.level, frontier |-> urls_by_level[call.level],
          nall |-> Cardinality(all_urls), outcomes |-> outcomes]
    ELSE NoRun

Call(op, level) == [op |-> op, level |-> level]

\* the caller makes a call
Begin(op, level) ==
    /\ pc = "idle"
    /\ ncalls < MaxCalls
    /\ ncalls' = ncalls + 1
    /\ call' = Call(op, level)
    /\ outcomes' = EmptyMap
    /\ known0' = IF op = "extract_urls_level" THEN all_urls ELSE {}
    /\ visited0' = IF op = "crawl_all_urls" THEN visited_urls ELSE {}
    /\ op # "download_file" => downloads' = {} /\ requested' = {}

(***************************************************************************)
(* save_urls_state / load_urls_state.                                      *)
(***************************************************************************)
\* save_urls_state leaving out the levels that are empty
JsonDumpSkipEmpty(levels, all, seed) ==
    [exists |-> TRUE,
     urls_by_level |->
        [k \in {IntToStr(n) : n \in {m \in DOMAIN levels : levels[m] # {}}} |->
            ListOf(levels[CHOOSE n \in DOMAIN levels : IntToStr(n) = k], seed)],
     all_urls |-> ListOf(all, seed)]

\* save_urls_state leaving out the global set
JsonDumpNoGlobal(levels, all, seed) ==
    [exists |-> TRUE,
     urls_by_level |->
        [k \in {IntToStr(n) : n \in DOMAIN levels} |->
            ListOf(levels[CHOOSE n \in DOMAIN levels : IntToStr(n) = k], seed)],
     all_urls |-> <<>>]

\* the JSON document save_urls_state writes
JsonDump(levels, all, seed) ==
    [exists |-> TRUE,
     urls_by_level |->
        [k \in {IntToStr(n) : n \in DOMAIN levels} |->
            ListOf(levels[CHOOSE n \in DOMAIN levels : IntToStr(n) = k], seed)],
     all_urls |-> ListOf(all, seed)]

\* the frontier load_urls_state builds from the JSON document
JsonLoad(file) ==
    [exists |-> TRUE,
     urls_by_level |->
        [n \in {StrToInt(k) : k \in DOMAIN file.urls_by_level} |->
            SetOf(file.urls_by_level[CHOOSE k \in DOMAIN file.urls_by_level : StrToInt(k) = n])],
     all_urls |-> SetOf(file.all_urls)]

(***************************************************************************)
(* Construction.                                                           *)
(***************************************************************************)
\* WebCrawler(base_url, output_dir) on an empty output directory
Init ==
    /\ web \in Webs
    /\ hashseed \in HashSeeds
    /\ incarnation = 0
    /\ ncalls = 0
    /\ urls_by_level = EmptyMap
    /\ all_urls = {}
    /\ visited_urls = {}
    /\ urls_state_json = NoFile
    /\ content_files = {}
    /\ sitemap = NoSitemap
    /\ pc = "idle"
    /\ call = Call("__init__", 0)
    /\ ret = "None"
    /\ remaining = {}
    /\ outcomes = EmptyMap
    /\ lastRun = NoRun
    /\ known0 = {}
    /\ saved = NoState
    /\ lastLevelState = NoLevelState
    /\ computed = {}
    /\ asset_files = {}
    /\ documents = EmptyMap
    /\ downloads = {}
    /\ requested = {}
    /\ visited0 = {}

\* the process is terminated, at any point, and a new one constructs a
\* WebCrawler on the same output directory
Restart ==
    /\ ncalls < MaxCalls
    /\ ncalls' = ncalls + 1
    /\ incarnation' = incarnation + 1
    /\ hashseed' \in HashSeeds
    /\ urls_by_level' = EmptyMap
    /\ all_urls' = {}
    /\ visited_urls' = {}
    /\ pc' = "idle"
    /\ call' = Call("__init__", 0)
    /\ ret' = "None"
    /\ remaining' = {}
    /\ outcomes' = EmptyMap
    /\ lastRun' = NoRun
    /\ known0' = {}
    /\ downloads' = {}
    /\ requested' = {}
    /\ visited0' = {}
    /\ UNCHANGED << web, asset_files, documents,
                    urls_state_json, content_files, sitemap, saved,
                    lastLevelState, computed >>

(***************************************************************************)
(* Frontier Store.                                                         *)
(***************************************************************************)
save_urls_state ==
    /\ Begin("save_urls_state", 0)
    /\ urls_state_json' = JsonDump(urls_by_level, all_urls, hashseed)
    /\ ret' = "None"
    /\ lastRun' = NoRun
    /\ saved' = Memory(urls_by_level, all_urls)
    /\ lastLevelState' =
          IF lastLevelState.exists
             /\ lastLevelState.urls_by_level = urls_by_level
             /\ lastLevelState.all_urls = all_urls
          THEN lastLevelState ELSE NoLevelState
    /\ UNCHANGED << web, asset_files, documents,
                    hashseed, incarnation, urls_by_level, all_urls, visited_urls,
                    content_files, sitemap, pc, remaining, computed >>

load_urls_state ==
    /\ Begin("load_urls_state", 0)
    /\ IF urls_state_json.exists
       THEN /\ urls_by_level' = JsonLoad(urls_state_json).urls_by_level
            /\ all_urls' = JsonLoad(urls_state_json).all_urls
            /\ ret' = "True"
       ELSE /\ UNCHANGED << urls_by_level, all_urls >>
            /\ ret' = "False"
    /\ lastRun' = NoRun
    /\ UNCHANGED << web, asset_files, documents,
                    hashseed, incarnation, visited_urls, urls_state_json,
                    content_files, sitemap, pc, remaining, saved, lastLevelState,
                    computed >>

(***************************************************************************)
(* URL Classifier.                                                         *)
(***************************************************************************)
is_valid_url(url) == Contains(url, domain)

(***************************************************************************)
(* Discovery phase: extract_urls_level(level).                             *)
(***************************************************************************)
\* requests.get(url) can return a response (it raises for a URL without
\* a connection adapter, and may raise for any URL)
CanRespond(url) == Scheme(url) = <<"h">> /\ url \in DOMAIN web

\* line 87 without the test against all_urls
KeepLinkNoDedup(full_url, known) == is_valid_url(full_url)

\* the test of line 87
KeepLink(full_url, known) == is_valid_url(full_url) /\ full_url \notin known

\* the URLs the loop of lines 83-89 adds for one fetched page; an href
\* urljoin raises on ends the loop (the except clause of line 93)
RECURSIVE NewLinks(_, _, _, _)
NewLinks(url, hrefs, known, found) ==
    IF hrefs = <<>> THEN found
    ELSE LET href == Head(hrefs)
         IN  IF href = <<>> THEN NewLinks(url, Tail(hrefs), known, found)
             ELSE IF UrlJoinRaises(url, href) THEN found
             ELSE LET full_url == UrlJoin(url, href)
                  IN  IF KeepLink(full_url, known \cup found)
                      THEN NewLinks(url, Tail(hrefs), known, found \cup {full_url})
                      ELSE NewLinks(url, Tail(hrefs), known, found)

ParseRaises(url, hrefs) == \E i \in 1..Len(hrefs) : UrlJoinRaises(url, hrefs[i])

\* lines 63-71: there is a source set (else MissingPriorLevel)
HasSources(levels, level) == level = 1 \/ (level - 1) \in DOMAIN levels

current_urls(levels, level) == IF level = 1 THEN {base_url} ELSE levels[level - 1]

\* line 73
ResetLevel(levels, level) ==
    [n \in DOMAIN levels \cup {level} |-> IF n = level THEN {} ELSE levels[n]]

\* extract_urls_level with line 73 moved before the test of line 68
ExtractStartResetFirst(level) ==
    /\ Begin("extract_urls_level", level)
    /\ lastRun' = RunSummary
    /\ urls_by_level' = ResetLevel(urls_by_level, level)
    /\ IF HasSources(urls_by_level, level)
       THEN /\ remaining' = current_urls(urls_by_level, level)
            /\ pc' = "extract_urls_level"
            /\ ret' = "running"
       ELSE /\ ret' = "False"
            /\ UNCHANGED << remaining, pc >>
    /\ UNCHANGED << web, asset_files, documents,
                    hashseed, incarnation, all_urls, visited_urls, urls_state_json,
                    content_files, sitemap, saved, lastLevelState, computed >>

ExtractStart(level) ==
    /\ Begin("extract_urls_level", level)
    /\ lastRun' = RunSummary
    /\ IF HasSources(urls_by_level, level)
       THEN /\ remaining' = current_urls(urls_by_level, level)
            /\ urls_by_level' = ResetLevel(urls_by_level, level)
            /\ pc' = "extract_urls_level"
            /\ ret' = "running"
       ELSE /\ ret' = "False"
            /\ UNCHANGED << urls_by_level, remaining, pc >>
    /\ UNCHANGED << web, asset_files, documents,
                    hashseed, incarnation, all_urls, visited_urls, urls_state_json,
                    content_files, sitemap, saved, lastLevelState, computed >>

\* the try of line 77 around the loop instead of inside it: the first
\* exception ends the loop
ExtractFetchRaisesAborts(url) ==
    /\ pc = "extract_urls_level"
    /\ url \in remaining
    /\ remaining' = {}
    /\ outcomes' = outcomes @@ (url :> "raised")
    /\ UNCHANGED << web, asset_files, documents, downloads, requested, visited0,
                    hashseed, incarnation, ncalls, urls_by_level, all_urls,
                    visited_urls, urls_state_json, content_files, sitemap, pc, call,
                    ret, lastRun, known0, saved, lastLevelState, computed >>

\* one iteration of the loop of line 76 whose requests.get raises
ExtractFetchRaises(url) ==
    /\ pc = "extract_urls_level"
    /\ url \in remaining
    /\ remaining' = remaining \ {url}
    /\ outcomes' = outcomes @@ (url :> "raised")
    /\ UNCHANGED << web, asset_files, documents, downloads, requested, visited0,
                    hashseed, incarnation, ncalls, urls_by_level, all_urls,
                    visited_urls, urls_state_json, content_files, sitemap, pc, call,
                    ret, lastRun, known0, saved, lastLevelState, computed >>

\* one iteration of the loop of line 76 whose requests.get returns
ExtractFetched(url) ==
    /\ pc = "extract_urls_level"
    /\ url \in remaining
    /\ CanRespond(url)
    /\ LET page == web[url]
           found == NewLinks(url, page.hrefs, all_urls, {})
       IN  /\ urls_by_level' = [urls_by_level EXCEPT ![call.level] = @ \cup found]
           /\ all_urls' = all_urls \cup found
           /\ outcomes' = outcomes @@
                 (url :> IF ParseRaises(url, page.hrefs) THEN "parse_error"
                         ELSE IF page.status = 200 THEN "ok" ELSE "status")
    /\ remaining' = remaining \ {url}
    /\ UNCHANGED << web, asset_files, documents, downloads, requested, visited0,
                    hashseed, incarnation, ncalls, visited_urls, urls_state_json,
                    content_files, sitemap, pc, call, ret, lastRun, known0, saved,
                    lastLevelState, computed >>

\* extract_urls_level without the save_urls_state() of line 97
ExtractFinishNoSave ==
    /\ pc = "extract_urls_level"
    /\ remaining = {}
    /\ ret' = "True"
    /\ pc' = "idle"
    /\ lastLevelState' = [exists |-> TRUE, urls_by_level |-> urls_by_level,
                           all_urls |-> all_urls, process |-> incarnation]
    /\ computed' = computed \cup {call.level}
    /\ UNCHANGED << web, asset_files, documents, downloads, requested, visited0,
                    hashseed, incarnation, ncalls, urls_by_level, all_urls,
                    visited_urls, urls_state_json, content_files, sitemap, call,
                    remaining, outcomes, lastRun, known0, saved >>

\* lines 96-98, after the loop
ExtractFinish ==
    /\ pc = "extract_urls_level"
    /\ remaining = {}
    /\ urls_state_json' = JsonDump(urls_by_level, all_urls, hashseed)
    /\ ret' = "True"
    /\ pc' = "idle"
    /\ saved' = Memory(urls_by_level, all_urls)
    /\ lastLevelState' = [exists |-> TRUE, urls_by_level |-> urls_by_level,
                           all_urls |-> all_urls, process |-> incarnation]
    /\ computed' = computed \cup {call.level}
    /\ UNCHANGED << web, asset_files, documents, downloads, requested, visited0,
                    hashseed, incarnation, ncalls, urls_by_level, all_urls,
                    visited_urls, content_files, sitemap, call, remaining, outcomes,
                    lastRun, known0 >>

(***************************************************************************)
(* Asset Store: get_file_type_folder and download_file.                    *)
(***************************************************************************)
\* str.lower() on the characters used
LowerChar(c) ==
    CASE c = "D" -> "d" [] c = "F" -> "f" [] c = "P" -> "p" [] OTHER -> c

Lower(s) == [i \in 1..Len(s) |-> LowerChar(s[i])]

\* os.path.splitext(p)[1]: from the last dot of the last path component,
\* unless that component has only dots before it
SplitExt(p) ==
    LET sepIndex == LastOf(p, {"/"})
        dotIndex == LastOf(p, {"."})
    IN  IF dotIndex > sepIndex /\ \E k \in (sepIndex + 1)..(dotIndex - 1) : p[k] # "."
        THEN SubSeq(p, dotIndex, Len(p))
        ELSE << >>

\* self.file_types, in the order of the dict
FileTypeOrder == <<"pdf", "images", "word", "excel", "csv", "text">>

file_types ==
    [folder \in {FileTypeOrder[i] : i \in 1..Len(FileTypeOrder)} |->
        CASE folder = "pdf" -> { <<".", "p", "d", "f">> }
          [] folder = "images" -> { <<".", "p", "n", "g">>, <<".", "j", "p", "g">>,
                                    <<".", "j", "p", "e", "g">>, <<".", "g", "i", "f">>,
                                    <<".", "w", "e", "b", "p">> }
          [] folder = "word" -> { <<".", "d", "o", "c">>, <<".", "d", "o", "c", "x">> }
          [] folder = "excel" -> { <<".", "x", "l", "s">>, <<".", "x", "l", "s", "x">> }
          [] folder = "csv" -> { <<".", "c", "s", "v">> }
          [] folder = "text" -> { <<".", "t", "x", "t">> }]

\* the folder of the first entry of file_types that lists the lower-cased
\* extension, or "None"
get_file_type_folder(extension) ==
    LET lowered == Lower(extension)
        hits == {i \in 1..Len(FileTypeOrder) : lowered \in file_types[FileTypeOrder[i]]}
    IN  IF hits = {} THEN "None"
        ELSE FileTypeOrder[CHOOSE i \in hits : \A j \in hits : i <= j]

\* hashlib.md5(url.encode()).hexdigest(): the digest is not computed; it is
\* a string that url determines, different for different URLs
Md5(url) == <<"md5(">> \o url \o <<")">>

\* os.path.join(self.files_dir, file_type, file_name), below output_dir
FilePath(file_type, file_name) == <<"files", "/", file_type, "/">> \o file_name

\* os.path.relpath(file_path, self.content_dir)
RelPath(file_path) == <<"..", "/">> \o file_path

\* how one call of download_file goes: nothing raises; something raises
\* before the file is created (requests.get, makedirs, open); or the write
\* raises when the file has been created
Transports == {"ok", "raises", "raises_in_write"}

NoDownload == [returned |-> "None", path |-> << >>, created |-> {}]

\* download_file without the test of line 157
download_fileAnyStatus(url, t) ==
    IF t = "raises" \/ ~CanRespond(url) THEN NoDownload
    ELSE LET extension == Lower(SplitExt(url))
             file_type == get_file_type_folder(extension)
             file_path == FilePath(file_type, Md5(url) \o extension)
         IN  IF file_type = "None" THEN NoDownload
             ELSE IF t = "raises_in_write"
                  THEN [returned |-> "None", path |-> << >>, created |-> {file_path}]
                  ELSE [returned |-> "path", path |-> RelPath(file_path),
                        created |-> {file_path}]

\* download_file(url) when the call goes as t says: what it returns, and
\* the files it creates
download_file(url, t) ==
    IF t = "raises" \/ ~CanRespond(url) THEN NoDownload
    ELSE IF web[url].status # 200 THEN NoDownload
    ELSE LET extension == Lower(SplitExt(url))
             file_type == get_file_type_folder(extension)
             file_path == FilePath(file_type, Md5(url) \o extension)
         IN  IF file_type = "None" THEN NoDownload
             ELSE IF t = "raises_in_write"
                  THEN [returned |-> "None", path |-> << >>, created |-> {file_path}]
                  ELSE [returned |-> "path", path |-> RelPath(file_path),
                        created |-> {file_path}]

(***************************************************************************)
(* Markdown Transformer: process_content(content, base_url).               *)
(***************************************************************************)
ImgsOf(page) == IF "imgs" \in DOMAIN page THEN page.imgs ELSE << >>

\* the elements process_content goes through: the <a href> elements of the
\* content region, then its <img src> elements
Elements(page) ==
    [i \in 1..Len(page.hrefs) |-> [tag |-> "a", attr |-> page.hrefs[i]]]
    \o [i \in 1..Len(ImgsOf(page)) |-> [tag |-> "img", attr |-> ImgsOf(page)[i]]]

\* line 209 as the condition `mapped to a category other than images`
HrefDownloadsNonImage(full_url) ==
    LET extension == Lower(SplitExt(full_url))
    IN  /\ extension # << >>
        /\ get_file_type_folder(extension) \notin {"None", "images"}

\* line 209: a hyperlink is downloaded when its extension has a folder
HrefDownloads(full_url) ==
    LET extension == Lower(SplitExt(full_url))
    IN  extension # << >> /\ get_file_type_folder(extension) # "None"

\* line 219: an image is downloaded when its extension is an image extension
ImgDownloads(full_url) == Lower(SplitExt(full_url)) \in file_types["images"]

\* the number of elements processed before urljoin raises, all if it does not
Processed(url, els) ==
    FirstOf([i \in 1..Len(els) |-> IF UrlJoinRaises(url, els[i].attr) THEN "!" ELSE "-"],
            {"!"}) - 1

\* the elements among the first n that download_file is called for
DownloadIdx(url, els, n) ==
    {i \in 1..n :
        IF els[i].tag = "a" THEN HrefDownloads(UrlJoin(url, els[i].attr))
        ELSE ImgDownloads(UrlJoin(url, els[i].attr))}

\* what download_file(url) can return and create, over the ways it can go
Results(url) == {download_file(url, t) : t \in Transports}

\* the ways the download_file calls for the first n elements can end
ResultChoices(url, els, n) ==
    LET idx == DownloadIdx(url, els, n)
        possible == [i \in idx |-> Results(UrlJoin(url, els[i].attr))]
    IN  {rs \in [idx -> UNION {possible[i] : i \in idx}] :
            \A i \in idx : rs[i] \in possible[i]}

\* the download_file calls made for the first n elements, ending as rs says
Downloads(url, els, n, rs) ==
    {[tag |-> els[i].tag, index |-> i, url |-> UrlJoin(url, els[i].attr), result |-> rs[i]]
        : i \in DownloadIdx(url, els, n)}

\* the href and src attributes after lines 213 and 223
Rewritten(url, els, rs) ==
    [i \in 1..Len(els) |->
        IF i \in DOMAIN rs /\ rs[i].returned = "path" THEN rs[i].path ELSE els[i].attr]

\* the document of lines 255-261: the source line and the converted content
Document(url, els, rs) == [source |-> url, attrs |-> Rewritten(url, els, rs)]

(***************************************************************************)
(* Fetch phase: crawl_all_urls().                                          *)
(***************************************************************************)
CrawlStart ==
    /\ Begin("crawl_all_urls", 0)
    /\ lastRun' = NoRun
    /\ IF all_urls = {}
       THEN /\ ret' = "None"
            /\ UNCHANGED << remaining, pc >>
       ELSE /\ remaining' = all_urls
            /\ pc' = "crawl_all_urls"
            /\ ret' = "running"
    /\ UNCHANGED << web, asset_files, documents,
                    hashseed, incarnation, urls_by_level, all_urls, visited_urls,
                    urls_state_json, content_files, sitemap, saved, lastLevelState,
                    computed >>

\* `for url in self.all_urls` (line 241) goes through the set in the order
\* list() gives in this process: the URL the loop takes next, S being left
NextInOrder(S) == Head(ListOf(S, hashseed))

\* one iteration of the loop of line 241 for a URL visited before
CrawlSkip(url) ==
    /\ pc = "crawl_all_urls"
    /\ url \in remaining
    /\ url = NextInOrder(remaining)
    /\ url \in visited_urls
    /\ remaining' = remaining \ {url}
    /\ outcomes' = outcomes @@ (url :> "skipped")
    /\ downloads' = {}
    /\ requested' = {}
    /\ UNCHANGED << web, asset_files, documents, visited0,
                    hashseed, incarnation, ncalls, urls_by_level, all_urls,
                    visited_urls, urls_state_json, content_files, sitemap, pc, call,
                    ret, lastRun, known0, saved, lastLevelState, computed >>

\* the content region process_content is given, as its elements: none when
\* the server does not answer or clean_content finds no region
ContentOf(url) ==
    IF CanRespond(url) /\ web[url].body THEN Elements(web[url]) ELSE << >>

\* f without the key k
Without(f, k) == [x \in DOMAIN f \ {k} |-> f[x]]

\* where an iteration can raise: in requests.get; in process_content, when
\* urljoin rejects an attribute; in the write of the document, the file
\* being created
RaisePoints == {"get", "transform", "write"}

\* what every iteration that passes line 247 does: the downloads of the
\* first n elements, ending as rs says
CrawlIteration(url, n, rs, outcome) ==
    LET calls == Downloads(url, ContentOf(url), n, rs)
    IN  /\ asset_files' = asset_files \cup UNION {d.result.created : d \in calls}
        /\ downloads' = calls
        /\ requested' = {url} \cup {d.url : d \in calls}
        /\ remaining' = remaining \ {url}
        /\ outcomes' = outcomes @@ (url :> outcome)

\* CrawlRaises with the except clause outside the loop: the first iteration
\* that raises ends the loop
CrawlRaisesAborts(url) ==
    /\ pc = "crawl_all_urls"
    /\ url \in remaining
    /\ url = NextInOrder(remaining)
    /\ url \notin visited_urls
    /\ remaining' = {}
    /\ outcomes' = outcomes @@ (url :> "raised")
    /\ downloads' = {}
    /\ requested' = {url}
    /\ UNCHANGED << web, hashseed, incarnation, ncalls, urls_by_level, all_urls,
                    visited_urls, urls_state_json, content_files, sitemap, pc, call,
                    ret, lastRun, known0, saved, lastLevelState, computed, asset_files,
                    documents, visited0 >>

\* CrawlRaises with visited_urls.add(url) before the body of the try
CrawlRaisesVisits(url) ==
    /\ pc = "crawl_all_urls"
    /\ url \in remaining
    /\ url = NextInOrder(remaining)
    /\ url \notin visited_urls
    /\ remaining' = remaining \ {url}
    /\ outcomes' = outcomes @@ (url :> "raised")
    /\ visited_urls' = visited_urls \cup {url}
    /\ downloads' = {}
    /\ requested' = {url}
    /\ UNCHANGED << web, hashseed, incarnation, ncalls, urls_by_level, all_urls,
                    urls_state_json, content_files, sitemap, pc, call, ret, lastRun,
                    known0, saved, lastLevelState, computed, asset_files, documents,
                    visited0 >>

\* one iteration that raises: the except clause of line 266 prints, and the
\* loop goes on
CrawlRaises(url) ==
    /\ pc = "crawl_all_urls"
    /\ url \in remaining
    /\ url = NextInOrder(remaining)
    /\ url \notin visited_urls
    /\ \E point \in RaisePoints :
          LET els == ContentOf(url)
              n == IF point = "get" THEN 0 ELSE Processed(url, els)
          IN  /\ point # "get" => CanRespond(url) /\ web[url].body
              /\ point = "transform" => n < Len(els)
              /\ point = "write" => n = Len(els)
              /\ \E rs \in ResultChoices(url, els, n) :
                    CrawlIteration(url, n, rs,
                                   IF point = "get" THEN "raised" ELSE point \o "_raised")
              /\ content_files' = IF point = "write" THEN content_files \cup {url}
                                  ELSE content_files
              /\ documents' = IF point = "write" THEN Without(documents, url)
                              ELSE documents
    /\ UNCHANGED << web, hashseed, incarnation, ncalls, urls_by_level, all_urls,
                    visited_urls, urls_state_json, sitemap, pc, call, ret, lastRun,
                    known0, saved, lastLevelState, computed, visited0 >>

\* CrawlFetched with visited_urls.add(url) inside `if main_content:`
CrawlFetchedVisitsWritten(url) ==
    /\ pc = "crawl_all_urls"
    /\ url \in remaining
    /\ url = NextInOrder(remaining)
    /\ url \notin visited_urls
    /\ CanRespond(url)
    /\ Processed(url, ContentOf(url)) = Len(ContentOf(url))
    /\ \E rs \in ResultChoices(url, ContentOf(url), Len(ContentOf(url))) :
          /\ CrawlIteration(url, Len(ContentOf(url)), rs,
                            IF web[url].body THEN "written" ELSE "no_content")
          /\ documents' = IF web[url].body
                          THEN (url :> Document(url, ContentOf(url), rs)) @@ documents
                          ELSE documents
    /\ content_files' = IF web[url].body THEN content_files \cup {url} ELSE content_files
    /\ visited_urls' = IF web[url].body THEN visited_urls \cup {url} ELSE visited_urls
    /\ UNCHANGED << web, hashseed, incarnation, ncalls, urls_by_level, all_urls,
                    urls_state_json, sitemap, pc, call, ret, lastRun, known0, saved,
                    lastLevelState, computed, visited0 >>

\* CrawlFetched without the test of line 247
CrawlFetchedAgain(url) ==
    /\ pc = "crawl_all_urls"
    /\ url \in remaining
    /\ url = NextInOrder(remaining)
    /\ CanRespond(url)
    /\ Processed(url, ContentOf(url)) = Len(ContentOf(url))
    /\ \E rs \in ResultChoices(url, ContentOf(url), Len(ContentOf(url))) :
          /\ CrawlIteration(url, Len(ContentOf(url)), rs,
                            IF web[url].body THEN "written" ELSE "no_content")
          /\ documents' = IF web[url].body
                          THEN (url :> Document(url, ContentOf(url), rs)) @@ documents
                          ELSE documents
    /\ content_files' = IF web[url].body THEN content_files \cup {url} ELSE content_files
    /\ visited_urls' = visited_urls \cup {url}
    /\ UNCHANGED << web, hashseed, incarnation, ncalls, urls_by_level, all_urls,
                    urls_state_json, sitemap, pc, call, ret, lastRun, known0, saved,
                    lastLevelState, computed, visited0 >>

\* one iteration that fetches the page and runs lines 249-264
CrawlFetched(url) ==
    /\ pc = "crawl_all_urls"
    /\ url \in remaining
    /\ url = NextInOrder(remaining)
    /\ url \notin visited_urls
    /\ CanRespond(url)
    /\ Processed(url, ContentOf(url)) = Len(ContentOf(url))
    /\ \E rs \in ResultChoices(url, ContentOf(url), Len(ContentOf(url))) :
          /\ CrawlIteration(url, Len(ContentOf(url)), rs,
                            IF web[url].body THEN "written" ELSE "no_content")
          /\ documents' = IF web[url].body
                          THEN (url :> Document(url, ContentOf(url), rs)) @@ documents
                          ELSE documents
    /\ content_files' = IF web[url].body THEN content_files \cup {url} ELSE content_files
    /\ visited_urls' = visited_urls \cup {url}
    /\ UNCHANGED << web, hashseed, incarnation, ncalls, urls_by_level, all_urls,
                    urls_state_json, sitemap, pc, call, ret, lastRun, known0, saved,
                    lastLevelState, computed, visited0 >>

\* CrawlFinish writing the sitemap in the iteration order of the set
CrawlFinishUnsorted ==
    /\ pc = "crawl_all_urls"
    /\ remaining = {}
    /\ sitemap' = [exists |-> TRUE, lines |-> ListOf(visited_urls, hashseed)]
    /\ ret' = "None"
    /\ pc' = "idle"
    /\ downloads' = {}
    /\ requested' = {}
    /\ UNCHANGED << web, asset_files, documents, visited0, hashseed, incarnation, ncalls,
                    urls_by_level, all_urls, visited_urls, urls_state_json,
                    content_files, call, remaining, outcomes, lastRun, known0, saved,
                    lastLevelState, computed >>

\* lines 269-275, after the loop
CrawlFinish ==
    /\ pc = "crawl_all_urls"
    /\ remaining = {}
    /\ sitemap' = [exists |-> TRUE, lines |-> Sorted(visited_urls)]
    /\ ret' = "None"
    /\ pc' = "idle"
    /\ downloads' = {}
    /\ requested' = {}
    /\ UNCHANGED << web, asset_files, documents, visited0,
                    hashseed, incarnation, ncalls, urls_by_level, all_urls,
                    visited_urls, urls_state_json, content_files, call, remaining,
                    outcomes, lastRun, known0, saved, lastLevelState, computed >>

(***************************************************************************)
(* The crawler and its caller.                                             *)
(***************************************************************************)
Next ==
    \/ Restart
    \/ save_urls_state
    \/ load_urls_state
    \/ \E level \in Levels : ExtractStart(level)
    \/ \E url \in URLs : ExtractFetchRaises(url)
    \/ \E url \in URLs : ExtractFetched(url)
    \/ ExtractFinish
    \/ CrawlStart
    \/ \E url \in URLs : CrawlSkip(url)
    \/ \E url \in URLs : CrawlRaises(url)
    \/ \E url \in URLs : CrawlFetched(url)
    \/ CrawlFinish

Spec == Init /\ [][Next]_vars

(***************************************************************************)
(* The crawler on a site with files and images; the caller also calls      *)
(* download_file directly.                                                 *)
(***************************************************************************)
\* the URLs the caller passes to download_file
DownloadInputs == {Up, Ug, UP, Uq}

\* download_file(url), called by the caller
DownloadCall(url) ==
    /\ Begin("download_file", 0)
    /\ \E t \in Transports :
          LET r == download_file(url, t)
          IN  /\ asset_files' = asset_files \cup r.created
              /\ downloads' = {[tag |-> "call", index |-> 0, url |-> url, result |-> r,
                                transport |-> t]}
              /\ ret' = r.returned
    /\ requested' = {url}
    /\ lastRun' = NoRun
    /\ UNCHANGED << web, hashseed, incarnation, urls_by_level, all_urls, visited_urls,
                    urls_state_json, content_files, sitemap, pc, remaining, saved,
                    lastLevelState, computed, documents >>

InitAssets ==
    /\ web \in AssetWebs
    /\ hashseed \in HashSeeds
    /\ incarnation = 0
    /\ ncalls = 0
    /\ urls_by_level = EmptyMap
    /\ all_urls = {}
    /\ visited_urls = {}
    /\ urls_state_json = NoFile
    /\ content_files = {}
    /\ sitemap = NoSitemap
    /\ pc = "idle"
    /\ call = Call("__init__", 0)
    /\ ret = "None"
    /\ remaining = {}
    /\ outcomes = EmptyMap
    /\ lastRun = NoRun
    /\ known0 = {}
    /\ saved = NoState
    /\ lastLevelState = NoLevelState
    /\ computed = {}
    /\ asset_files = {}
    /\ documents = EmptyMap
    /\ downloads = {}
    /\ requested = {}
    /\ visited0 = {}

NextAssets ==
    \/ Next
    \/ \E url \in DownloadInputs : DownloadCall(url)

SpecAssets == InitAssets /\ [][NextAssets]_vars

(***************************************************************************)
(* The Frontier Store alone, from any frontier in memory: any levels       *)
(* (negative, several digits, empty) and any global set.                   *)
(***************************************************************************)
RTKeys == {-1, 2, 10}
RTSets == {{}, {Ux}, {Ux, Um}}
RTAll == {{}, {Ux}, {base_url, Ux, Um}}

InitRT ==
    /\ web = CHOOSE w \in Webs : TRUE
    /\ hashseed \in HashSeeds
    /\ incarnation = 0
    /\ ncalls = 0
    /\ urls_by_level \in UNION {[K -> RTSets] : K \in SUBSET RTKeys}
    /\ all_urls \in RTAll
    /\ visited_urls = {}
    /\ urls_state_json = NoFile
    /\ content_files = {}
    /\ sitemap = NoSitemap
    /\ pc = "idle"
    /\ call = Call("__init__", 0)
    /\ ret = "None"
    /\ remaining = {}
    /\ outcomes = EmptyMap
    /\ lastRun = NoRun
    /\ known0 = {}
    /\ saved = NoState
    /\ lastLevelState = NoLevelState
    /\ computed = {}
    /\ asset_files = {}
    /\ documents = EmptyMap
    /\ downloads = {}
    /\ requested = {}
    /\ visited0 = {}

NextRT ==
    \/ Restart
    \/ save_urls_state
    \/ load_urls_state

SpecRT == InitRT /\ [][NextRT]_vars

(***************************************************************************)
(* Properties.                                                             *)
(***************************************************************************)
AllLevels == UNION {urls_by_level[n] : n \in DOMAIN urls_by_level}

Frontier(st) == Memory(st.urls_by_level, st.all_urls)

\* a discovery run has just completed successfully
RunCompleted == pc = "idle" /\ call.op = "extract_urls_level" /\ ret = "True"

\* C1: when extract_urls_level(n) has run twice in a row, each fetch having
\* had the same outcome both times, FrontierLevel[n] after the second run is
\* FrontierLevel[n] after the first, and GlobalURLSet has the size it had.
C1_DiscoveryIdempotent ==
    (RunCompleted /\ lastRun.valid /\ lastRun.level = call.level
        /\ lastRun.outcomes = outcomes)
    => /\ urls_by_level[call.level] = lastRun.frontier
       /\ Cardinality(all_urls) = lastRun.nall

\* C2: after any sequence of calls, the union of the FrontierLevel sets is
\* GlobalURLSet.
C2_UnionIsGlobal == pc = "idle" => AllLevels = all_urls

\* C3: no URL is a member of two different FrontierLevel sets.
C3_LevelsDisjoint ==
    \A i \in DOMAIN urls_by_level : \A j \in DOMAIN urls_by_level :
        i # j => urls_by_level[i] \cap urls_by_level[j] = {}

C3_Witness ==
    /\ pc = "idle"
    /\ \E i \in DOMAIN urls_by_level : \E j \in DOMAIN urls_by_level :
          i # j /\ urls_by_level[i] # {} /\ urls_by_level[j] # {}

C5_SnapshotRoundTrip ==
    (pc = "idle" /\ call.op = "load_urls_state" /\ ret = "True")
    => Memory(urls_by_level, all_urls) = saved

C5_Witness ==
    /\ pc = "idle" /\ call.op = "load_urls_state" /\ ret = "True"
    /\ \E k \in DOMAIN urls_by_level : k < 0 /\ urls_by_level[k] # {}
    /\ \E k \in DOMAIN urls_by_level : k >= 10 /\ urls_by_level[k] = {}
    /\ all_urls # {}

\* C6: extract_urls_level(n) with n # 1, called when level n-1 was never
\* computed, returns False and leaves the FrontierLevel map, GlobalURLSet
\* and the snapshot file as they were.
C6_MissingPriorLevel ==
    [][ ( /\ ncalls' = ncalls + 1
          /\ call'.op = "extract_urls_level"
          /\ call'.level # 1
          /\ (call'.level - 1) \notin computed )
        => ( /\ ret' = "False"
             /\ pc' = "idle"
             /\ UNCHANGED << urls_by_level, all_urls, urls_state_json >> ) ]_vars

C6_Witness ==
    /\ pc = "idle" /\ call.op = "extract_urls_level" /\ ret = "False"
    /\ call.level # 1
    /\ (call.level - 1) \notin computed
    /\ all_urls # {}
    /\ urls_state_json.exists

\* the URLs line 87 passes to is_valid_url when the page of `url` is parsed
ClassifiedLinks(url) ==
    {UrlJoin(url, web[url].hrefs[i]) :
        i \in {j \in 1..Len(web[url].hrefs) :
                  web[url].hrefs[j] # <<>> /\ ~UrlJoinRaises(url, web[url].hrefs[j])}}

\* C7: for every link of a page discovery has parsed, is_valid_url is true
\* exactly when the host of the URL contains the target domain (the domain
\* string elsewhere in the URL does not count).
C7_ScopeIsHostMatch ==
    call.op = "extract_urls_level" =>
        \A url \in DOMAIN outcomes :
            outcomes[url] \in {"ok", "status"} =>
                \A link \in ClassifiedLinks(url) :
                    is_valid_url(link) <=> Contains(Hostname(link), domain)

\* C8: an iteration of discovery whose fetch fails (requests.get raises, or
\* the response has a non-2xx status) adds no URL to FrontierLevel[n] nor to
\* GlobalURLSet.
C8_FailedFetchAddsNothing ==
    [][ ( /\ pc = "extract_urls_level"
          /\ \E url \in remaining :
                /\ url \notin remaining'
                /\ url \in DOMAIN outcomes'
                /\ outcomes'[url] \in {"raised", "status"} )
        => UNCHANGED << urls_by_level, all_urls >> ]_vars

\* the absolute URLs of the anchors of a page
ResolvedLinks(url, hrefs) ==
    {UrlJoin(url, hrefs[i]) : i \in {j \in 1..Len(hrefs) : hrefs[j] # <<>>}}

\* C9: a call of extract_urls_level(n) that had a source set returns True
\* having iterated over every source URL, whatever URLs failed; every
\* in-scope link of every page that was fetched and parsed is in
\* GlobalURLSet, and in FrontierLevel[n] if it was not known before; and the
\* snapshot file holds the resulting frontier.
C9_FailuresDoNotAbort ==
    ( /\ pc = "idle" /\ call.op = "extract_urls_level"
      /\ HasSources(urls_by_level, call.level) )
    => /\ ret = "True"
       /\ DOMAIN outcomes = current_urls(urls_by_level, call.level)
       /\ \A url \in DOMAIN outcomes :
             outcomes[url] \in {"ok", "status"} =>
                \A link \in ResolvedLinks(url, web[url].hrefs) :
                    is_valid_url(link) =>
                        /\ link \in all_urls
                        /\ link \notin known0 => link \in urls_by_level[call.level]
       /\ urls_state_json.exists
       /\ JsonLoad(urls_state_json) = Memory(urls_by_level, all_urls)

C9_Witness ==
    /\ RunCompleted
    /\ \E url \in DOMAIN outcomes : outcomes[url] \in {"raised", "parse_error"}
    /\ \E url \in DOMAIN outcomes :
          /\ outcomes[url] = "ok"
          /\ ResolvedLinks(url, web[url].hrefs) \cap urls_by_level[call.level] # {}

C11_LevelDerivation ==
    pc = "idle" =>
        \A n \in DOMAIN urls_by_level : \A link \in urls_by_level[n] :
            /\ n = 1 => link \in ClassifiedLinks(base_url)
            /\ n >= 2 =>
                  /\ (n - 1) \in DOMAIN urls_by_level
                  /\ \E url \in urls_by_level[n - 1] :
                        url \in DOMAIN web /\ link \in ClassifiedLinks(url)

\* C19: every URL discovery has put into a FrontierLevel or into
\* GlobalURLSet is in scope for the target domain: its host contains the
\* domain.
C19_FrontierInScope ==
    \A link \in AllLevels \cup all_urls : Contains(Hostname(link), domain)

\* the outcomes of an iteration that raised
Raised == {"raised", "transform_raised", "write_raised"}

\* C12: a fetch phase on a non-empty GlobalURLSet goes through the URLs of
\* GlobalURLSet one by one, whatever iterations raised; when it completes it
\* has gone through every one, has attempted every one that was not in
\* VisitedSet when it began, and has written the sitemap.
C12_FetchPhaseCompletes ==
    /\ pc = "crawl_all_urls" =>
          /\ remaining \subseteq all_urls
          /\ DOMAIN outcomes = all_urls \ remaining
          /\ \A url \in DOMAIN outcomes : outcomes[url] = "skipped" <=> url \in visited0
    /\ (pc = "idle" /\ call.op = "crawl_all_urls" /\ all_urls # {}) =>
          /\ ret = "None"
          /\ DOMAIN outcomes = all_urls
          /\ \A url \in all_urls \ visited0 : outcomes[url] # "skipped"
          /\ sitemap.exists
          /\ SetOf(sitemap.lines) = visited_urls

C12_Witness ==
    /\ pc = "idle" /\ call.op = "crawl_all_urls"
    /\ \E url \in DOMAIN outcomes : outcomes[url] = "raised"
    /\ \E url \in DOMAIN outcomes : outcomes[url] = "write_raised"
    /\ \E url \in DOMAIN outcomes : outcomes[url] = "written"
    /\ \E url \in DOMAIN outcomes : outcomes[url] = "skipped"

\* the fetch phase has just run its iteration for url
Iterated(url) ==
    /\ pc = "crawl_all_urls"
    /\ url \in remaining
    /\ url \notin remaining'
    /\ url \in DOMAIN outcomes'

\* C13: an iteration of the fetch phase whose fetch fails (requests.get
\* raises, or the response has a non-2xx status) writes no content file.
C13_FailedFetchWritesNothing ==
    [][ \A url \in URLs :
          ( /\ Iterated(url)
            /\ \/ outcomes'[url] = "raised"
               \/ /\ outcomes'[url] # "skipped"
                  /\ CanRespond(url)
                  /\ web[url].status \notin 200..299 )
          => UNCHANGED << content_files, documents >> ]_vars

\* C14: an iteration of the fetch phase that fetches a page in which
\* clean_content finds no content region writes no document and adds the
\* URL to VisitedSet; the sitemap written at the end of the run lists it.
C14_NoContentStillVisited ==
    [][ /\ \A url \in URLs :
              ( /\ Iterated(url)
                /\ outcomes'[url] \notin Raised \cup {"skipped"}
                /\ ~web[url].body )
              => /\ UNCHANGED << content_files, documents >>
                 /\ url \in visited_urls'
        /\ (pc = "crawl_all_urls" /\ pc' = "idle" /\ incarnation' = incarnation)
              => \A url \in DOMAIN outcomes :
                    outcomes[url] = "no_content" => url \in SetOf(sitemap'.lines) ]_vars

C14_Witness ==
    /\ pc = "idle" /\ call.op = "crawl_all_urls"
    /\ \E url \in DOMAIN outcomes :
          /\ outcomes[url] = "no_content"
          /\ ~web[url].body
          /\ url \in visited_urls
          /\ url \notin content_files
          /\ url \in SetOf(sitemap.lines)

\* C15: when crawl_all_urls completes on a non-empty GlobalURLSet, the
\* sitemap file has one entry for each member of VisitedSet, no other entry,
\* no entry twice, and the entries are in increasing lexicographic order.
C15_SitemapIsSortedVisited ==
    (pc = "idle" /\ call.op = "crawl_all_urls" /\ all_urls # {}) =>
        /\ sitemap.exists
        /\ \A url \in visited_urls : \E i \in 1..Len(sitemap.lines) : sitemap.lines[i] = url
        /\ \A i \in 1..Len(sitemap.lines) : sitemap.lines[i] \in visited_urls
        /\ \A i \in 1..Len(sitemap.lines) : \A j \in 1..Len(sitemap.lines) :
              i < j => StrLess(sitemap.lines[i], sitemap.lines[j])

C15_Witness ==
    /\ pc = "idle" /\ call.op = "crawl_all_urls"
    /\ Cardinality(visited_urls) >= 3
    /\ Len(sitemap.lines) = Cardinality(visited_urls)
    /\ ListOf(visited_urls, hashseed) # sitemap.lines
    /\ visited_urls # all_urls

\* C16 as stated: in one process, no iteration of a fetch phase sends a
\* request for a URL that is in VisitedSet.
C16_VisitedNeverFetchedAgain ==
    [][ (pc = "crawl_all_urls" /\ pc' = "crawl_all_urls" /\ remaining' # remaining)
        => requested' \cap visited_urls = {} ]_vars

\* C16, amended: in one process, an iteration of a fetch phase for a URL
\* that is in VisitedSet sends no request and writes nothing, whatever calls
\* were made since the URL was visited; a request for a URL of VisitedSet is
\* only ever sent by download_file, for a link or image of another page.
C16_VisitedNeverFetchedAsPage ==
    [][ /\ \A url \in URLs :
              (Iterated(url) /\ url \in visited_urls)
              => /\ outcomes'[url] = "skipped"
                 /\ requested' = {}
                 /\ UNCHANGED << visited_urls, content_files, documents, asset_files >>
        /\ (pc = "crawl_all_urls" /\ pc' = "crawl_all_urls" /\ remaining' # remaining)
              => requested' \cap visited_urls \subseteq {d.url : d \in downloads'} ]_vars

C16_Witness ==
    /\ pc = "crawl_all_urls"
    /\ visited0 # {}
    /\ 2 \in computed
    /\ \E url \in DOMAIN outcomes : outcomes[url] = "skipped"
    /\ \E d \in downloads : d.url \in visited0

\* the extensions self.file_types lists
Classified == UNION {file_types[folder] : folder \in DOMAIN file_types}

\* the folder that lists the extension ext
FolderOf(ext) == CHOOSE folder \in DOMAIN file_types : ext \in file_types[folder]

\* C17: a call download_file(url) returns to its caller, with a path or
\* with None. It returns a path only when the status is 200 and the
\* lower-cased extension of the URL is classified, and the path is that of
\* the file files/<category>/<md5(url)><extension>, which it has written,
\* relative to the content directory. When the status is not 200 or the
\* extension is unclassified it returns None and creates no file. When
\* something raises it returns None.
C17_DownloadContract ==
    [][ (ncalls' = ncalls + 1 /\ call'.op = "download_file")
        => \A d \in downloads' :
              LET ext == Lower(SplitExt(d.url))
                  success == CanRespond(d.url) /\ web[d.url].status = 200
              IN  /\ pc' = "idle"
                  /\ ret' \in {"None", "path"}
                  /\ ret' = d.result.returned
                  /\ asset_files' = asset_files \cup d.result.created
                  /\ ret' = "path" =>
                        /\ success /\ ext \in Classified
                        /\ d.result.path
                             = <<"..", "/", "files", "/", FolderOf(ext), "/">>
                                  \o Md5(d.url) \o ext
                        /\ d.result.created
                             = {<<"files", "/", FolderOf(ext), "/">> \o Md5(d.url) \o ext}
                  /\ (~success \/ ext \notin Classified) =>
                        /\ ret' = "None"
                        /\ asset_files' = asset_files
                  /\ d.transport # "ok" => ret' = "None" ]_vars

C17_Witness ==
    /\ pc = "idle" /\ call.op = "download_file" /\ ret = "path"
    /\ \E d \in downloads :
          /\ d.url = UP
          /\ SplitExt(d.url) # Lower(SplitExt(d.url))
          /\ d.result.created \subseteq asset_files
          /\ d.result.created # {}

\* the download_file call process_content made for the i-th hyperlink, if any
HrefCalls(i) == {d \in downloads' : d.tag = "a" /\ d.index = i}

\* the extension of the target of the i-th hyperlink of the page of url
HrefExt(url, i) == Lower(SplitExt(UrlJoin(url, web[url].hrefs[i])))

\* in the document written for url, the i-th hyperlink is the path
\* download_file returned, or the href of the page when it returned None or
\* was not called
HrefRewritten(url, i) ==
    documents'[url].attrs[i] =
        IF \E d \in HrefCalls(i) : d.result.returned = "path"
        THEN (CHOOSE d \in HrefCalls(i) : TRUE).result.path
        ELSE web[url].hrefs[i]

\* C18 as stated: when a page is transformed and its document written,
\* download_file is called for a hyperlink exactly when the extension of its
\* target is mapped to a category other than images, and the href in the
\* document is the returned path, or the original href if None was returned.
C18_HyperlinkStepNonImage ==
    [][ \A url \in URLs :
          (Iterated(url) /\ outcomes'[url] = "written")
          => \A i \in 1..Len(web[url].hrefs) :
                /\ HrefCalls(i) # {}
                      <=> /\ HrefExt(url, i) \in Classified
                          /\ HrefExt(url, i) \notin file_types["images"]
                /\ HrefRewritten(url, i) ]_vars

\* C18, amended: download_file is called for a hyperlink exactly when the
\* extension of its target is mapped to a category, images included; the
\* href in the document is the returned path, or the original href if None
\* was returned or no call was made.
C18_HyperlinkStepAnyCategory ==
    [][ \A url \in URLs :
          (Iterated(url) /\ outcomes'[url] = "written")
          => \A i \in 1..Len(web[url].hrefs) :
                /\ HrefCalls(i) # {} <=> HrefExt(url, i) \in Classified
                /\ \A d \in HrefCalls(i) : d.url = UrlJoin(url, web[url].hrefs[i])
                /\ HrefRewritten(url, i) ]_vars

C18_Witness ==
    /\ pc = "crawl_all_urls"
    /\ Ux \in DOMAIN outcomes /\ outcomes[Ux] = "written"
    /\ Ux \in DOMAIN documents
    /\ \E d \in downloads : d.tag = "a" /\ d.url = Up /\ d.result.returned = "path"
    /\ \E d \in downloads : d.tag = "a" /\ d.url = Ug /\ d.result.returned = "None"
    /\ documents[Ux].attrs[1] = RelPath(FilePath("pdf", Md5(Up) \o <<".", "p", "d", "f">>))
    /\ documents[Ux].attrs[2] = web[Ux].hrefs[2]
    /\ documents[Ux].attrs[3] = Uq

\* the outcomes of an iteration that ran lines 248-263 without raising
Completed == {"written", "no_content"}

\* C20: in one process, an iteration of the fetch phase adds its URL to
\* VisitedSet when fetch, extraction, transformation and write completed
\* without raising, and leaves VisitedSet as it was when something raised;
\* only a URL of VisitedSet is skipped, so a URL whose processing raised is
\* fetched again by the next call. VisitedSet is the set it was when the
\* call began plus the URLs whose iteration completed, it is a subset of
\* GlobalURLSet, and the sitemap written at the end of the call lists no
\* URL whose processing raised.
C20_VisitedIsCompleted ==
    [][ /\ \A url \in URLs :
              Iterated(url) =>
                 /\ outcomes'[url] \in Completed => visited_urls' = visited_urls \cup {url}
                 /\ outcomes'[url] \in Raised => visited_urls' = visited_urls
                 /\ outcomes'[url] = "skipped" <=> url \in visited_urls
        /\ (call'.op = "crawl_all_urls" /\ incarnation' = incarnation) =>
              /\ visited_urls'
                   = visited0' \cup {url \in DOMAIN outcomes' : outcomes'[url] \in Completed}
              /\ visited_urls' \subseteq all_urls'
              /\ (pc' = "idle" /\ all_urls' # {}) =>
                    \A url \in DOMAIN outcomes' :
                        outcomes'[url] \in Raised =>
                            /\ url \notin visited_urls'
                            /\ url \notin SetOf(sitemap'.lines)
        /\ (call.op # "crawl_all_urls" /\ incarnation' = incarnation) =>
              visited_urls' = visited_urls ]_vars

C20_Witness ==
    /\ pc = "idle" /\ call.op = "crawl_all_urls"
    /\ ncalls = 3 /\ incarnation = 0
    /\ visited0 # {}
    /\ \E url \in all_urls \ visited0 : outcomes[url] = "written"
    /\ \E url \in DOMAIN outcomes :
          /\ outcomes[url] \in Raised
          /\ url \notin visited_urls
          /\ url \notin SetOf(sitemap.lines)

====
